---- MODULE Spec2Model ----
(***************************************************************************)
(* A model of the collection engine of instagram-hashtag-crawler:          *)
(* _collect_posts, crawl, crawl_multi_and, _process_post, _get_profile and *)
(* _save_posts of src/src/instagram_hashtag_crawler/crawler.py.            *)
(*                                                                         *)
(* The remote side (the hashtag feed iterator and the owner-profile fetch) *)
(* is the environment: each advance of the feed iterator yields a post,    *)
(* ends the feed or raises; each profile fetch succeeds or raises.         *)
(***************************************************************************)
EXTENDS Integers, Sequences, FiniteSets, TLC

----------------------------------------------------------------------------
(* Bounds of the model *)

\* total number of posts the feed iterators yield during one call
MaxFeedLen == 3

\* config.max_posts ranges over 1..MaxPostsBound
MaxPostsBound == 2

\* the number of owners the posts of a call have
NumOwners == 2

----------------------------------------------------------------------------
(* Values *)

\* Python's None, and an optional value that is set
None == <<>>
Some(x) == <<x>>

\* shortcodes are named in the order a call first meets them
Shortcodes == 1..MaxFeedLen
Typenames == {"GraphImage", "GraphVideo"}
TagSets == {{"a"}, {"a", "b"}}
Dates == {1, 2}

\* Post.owner_id: every post has one owner, and an owner may have several posts
OwnerOf(shortcode) == ((shortcode - 1) % NumOwners) + 1

\* the posts a feed iterator may yield (instaloader Post objects)
Posts ==
    [shortcode : Shortcodes, typename : Typenames,
     caption_hashtags : TagSets, date_utc : Dates]

\* the Profile the remote side returns for an owner
ProfileOf(owner_id) == [username |-> owner_id]

\* str.lower() on the hashtags of the model
Lower(tag) ==
    CASE tag = "A" -> "a"
      [] tag = "B" -> "b"
      [] OTHER -> tag

\* the order of Python's str comparison on the hashtags of the model
Rank(tag) ==
    CASE tag = "A" -> 1
      [] tag = "B" -> 2
      [] tag = "a" -> 3
      [] OTHER -> 4

\* the calls of the model: crawl(loader, hashtag, config) and
\* crawl_multi_and(loader, hashtags, config)
Calls ==
    {[fn |-> "crawl", hashtags |-> <<"a">>]}
    \cup {[fn |-> "crawl_multi_and", hashtags |-> hs] :
            hs \in {<<>>, <<"a">>, <<"A", "b">>}}

\* CrawlConfig (output_dir is left out: one directory). min_posts is the default
\* 1 or more than any max_posts; min_timestamp is unset or the later date.
\* min_posts is read only after the collection (crawl, crawl_multi_and), so the
\* larger value comes with one max_posts and no cutoff
Configs ==
    {c \in [min_posts : {1, MaxPostsBound + 1}, max_posts : 1..MaxPostsBound,
             min_timestamp : {None, Some(2)}] :
        c.min_posts > c.max_posts =>
            (c.max_posts = MaxPostsBound /\ c.min_timestamp = None)}

\* the posts a feed may yield next, under a configuration and after nshort
\* distinct shortcodes: a shortcode met before, or the next new one. Without a
\* cutoff the date of a post is only copied into its record, and one date
\* stands for all
FeedPosts(cfg, nshort) ==
    {p \in Posts : /\ p.shortcode <= nshort + 1
                   /\ cfg.min_timestamp = None => p.date_utc = 2}

----------------------------------------------------------------------------
(* Pure helpers *)

Take(s, n) == SubSeq(s, 1, IF n < Len(s) THEN n ELSE Len(s))

Range(s) == {s[i] : i \in 1..Len(s)}

\* _process_post: the dict built from a post and its owner's profile
Record(post, profile) ==
    [shortcode |-> post.shortcode,
     user_id |-> OwnerOf(post.shortcode),
     username |-> profile.username,
     date |-> post.date_utc,
     tags |-> post.caption_hashtags]

\* crawl_multi_and: required_tags = frozenset(tag.lower() for tag in hashtags)
RequiredTags(hashtags) == {Lower(hashtags[i]) : i \in 1..Len(hashtags)}

\* the required_tags argument crawl and crawl_multi_and pass to _collect_posts
RequiredOf(c) ==
    IF c.fn = "crawl" THEN None ELSE Some(RequiredTags(c.hashtags))

\* ItemDecision without the capacity check
ItemDecision_NoCapacity(post, nposts, seen, cfg, required) ==
    IF cfg.min_timestamp # None /\ post.date_utc < cfg.min_timestamp[1]
    THEN "break_time"
    ELSE IF post.typename # "GraphImage" THEN "skip_type"
    ELSE IF post.shortcode \in seen THEN "duplicate"
    ELSE IF required # None /\ ~(required[1] \subseteq post.caption_hashtags)
         THEN "skip_tags"
    ELSE "enrich"

\* ItemDecision without the check of seen_shortcodes
ItemDecision_NoDedup(post, nposts, seen, cfg, required) ==
    IF nposts >= cfg.max_posts THEN "break_capacity"
    ELSE IF cfg.min_timestamp # None /\ post.date_utc < cfg.min_timestamp[1]
         THEN "break_time"
    ELSE IF post.typename # "GraphImage" THEN "skip_type"
    ELSE IF required # None /\ ~(required[1] \subseteq post.caption_hashtags)
         THEN "skip_tags"
    ELSE "enrich"

\* ItemDecision asking for any required tag in place of all of them
ItemDecision_AnyTag(post, nposts, seen, cfg, required) ==
    IF nposts >= cfg.max_posts THEN "break_capacity"
    ELSE IF cfg.min_timestamp # None /\ post.date_utc < cfg.min_timestamp[1]
         THEN "break_time"
    ELSE IF post.typename # "GraphImage" THEN "skip_type"
    ELSE IF post.shortcode \in seen THEN "duplicate"
    ELSE IF required # None /\ (required[1] \cap post.caption_hashtags = {})
         THEN "skip_tags"
    ELSE "enrich"

\* ItemDecision breaking on a post dated at the cutoff too
ItemDecision_CutoffInclusive(post, nposts, seen, cfg, required) ==
    IF nposts >= cfg.max_posts THEN "break_capacity"
    ELSE IF cfg.min_timestamp # None /\ post.date_utc <= cfg.min_timestamp[1]
         THEN "break_time"
    ELSE IF post.typename # "GraphImage" THEN "skip_type"
    ELSE IF post.shortcode \in seen THEN "duplicate"
    ELSE IF required # None /\ ~(required[1] \subseteq post.caption_hashtags)
         THEN "skip_tags"
    ELSE "enrich"

\* ItemDecision skipping a post older than the cutoff (continue for break)
ItemDecision_CutoffSkips(post, nposts, seen, cfg, required) ==
    IF nposts >= cfg.max_posts THEN "break_capacity"
    ELSE IF cfg.min_timestamp # None /\ post.date_utc < cfg.min_timestamp[1]
         THEN "skip_type"
    ELSE IF post.typename # "GraphImage" THEN "skip_type"
    ELSE IF post.shortcode \in seen THEN "duplicate"
    ELSE IF required # None /\ ~(required[1] \subseteq post.caption_hashtags)
         THEN "skip_tags"
    ELSE "enrich"

\* ItemDecision with the capacity check off by one
ItemDecision_CapacityOffByOne(post, nposts, seen, cfg, required) ==
    IF nposts > cfg.max_posts THEN "break_capacity"
    ELSE IF cfg.min_timestamp # None /\ post.date_utc < cfg.min_timestamp[1]
         THEN "break_time"
    ELSE IF post.typename # "GraphImage" THEN "skip_type"
    ELSE IF post.shortcode \in seen THEN "duplicate"
    ELSE IF required # None /\ ~(required[1] \subseteq post.caption_hashtags)
         THEN "skip_tags"
    ELSE "enrich"

\* ItemDecision with the type check moved to the front
ItemDecision_TypeFirst(post, nposts, seen, cfg, required) ==
    IF post.typename # "GraphImage" THEN "skip_type"
    ELSE IF nposts >= cfg.max_posts THEN "break_capacity"
    ELSE IF cfg.min_timestamp # None /\ post.date_utc < cfg.min_timestamp[1]
         THEN "break_time"
    ELSE IF post.shortcode \in seen THEN "duplicate"
    ELSE IF required # None /\ ~(required[1] \subseteq post.caption_hashtags)
         THEN "skip_tags"
    ELSE "enrich"

\* ItemDecision with the tag check before the check of seen_shortcodes
ItemDecision_TagsBeforeDedup(post, nposts, seen, cfg, required) ==
    IF nposts >= cfg.max_posts THEN "break_capacity"
    ELSE IF cfg.min_timestamp # None /\ post.date_utc < cfg.min_timestamp[1]
         THEN "break_time"
    ELSE IF post.typename # "GraphImage" THEN "skip_type"
    ELSE IF required # None /\ ~(required[1] \subseteq post.caption_hashtags)
         THEN "skip_tags"
    ELSE IF post.shortcode \in seen THEN "duplicate"
    ELSE "enrich"

\* _collect_posts: the checks of one loop iteration, in the order of the code
ItemDecision(post, nposts, seen, cfg, required) ==
    IF nposts >= cfg.max_posts THEN "break_capacity"
    ELSE IF cfg.min_timestamp # None /\ post.date_utc < cfg.min_timestamp[1]
         THEN "break_time"
    ELSE IF post.typename # "GraphImage" THEN "skip_type"
    ELSE IF post.shortcode \in seen THEN "duplicate"
    ELSE IF required # None /\ ~(required[1] \subseteq post.caption_hashtags)
         THEN "skip_tags"
    ELSE "enrich"

\* MergeInto appending every post, seen before or not (a list for the dict)
MergeInto_AppendAll(acc, ps) == acc \o ps

\* MergeInto with the last occurrence winning: a record of ps replaces the one
\* acc holds under its shortcode
MergeInto_LastWins(acc, ps) ==
    LET Same(r) == {j \in 1..Len(ps) : ps[j].shortcode = r.shortcode}
        IsNew(r) == \A i \in 1..Len(acc) : acc[i].shortcode # r.shortcode
    IN [i \in 1..Len(acc) |->
          IF Same(acc[i]) = {} THEN acc[i] ELSE ps[CHOOSE j \in Same(acc[i]) : TRUE]]
       \o SelectSeq(ps, IsNew)

\* crawl_multi_and: merged.setdefault(post["shortcode"], post) for each post
RECURSIVE MergeInto(_, _)
MergeInto(acc, ps) ==
    IF ps = <<>> THEN acc
    ELSE MergeInto(
           IF \E i \in 1..Len(acc) : acc[i].shortcode = Head(ps).shortcode
           THEN acc ELSE Append(acc, Head(ps)),
           Tail(ps))

\* sorted(hashtags)
RECURSIVE Sorted(_)
Sorted(hs) ==
    IF hs = <<>> THEN <<>>
    ELSE LET m == CHOOSE i \in 1..Len(hs) :
                    \A j \in 1..Len(hs) :
                        Rank(hs[i]) < Rank(hs[j]) \/ (Rank(hs[i]) = Rank(hs[j]) /\ i <= j)
         IN <<hs[m]>> \o Sorted(SubSeq(hs, 1, m - 1) \o SubSeq(hs, m + 1, Len(hs)))

----------------------------------------------------------------------------
(* State *)

VARIABLES
    call,           \* the call being run: function and hashtags
    config,         \* its CrawlConfig
    pc,             \* where the call is
    hidx,           \* crawl_multi_and: index of the hashtag being collected
    feeds,          \* per hashtag collected, the posts its iterator has yielded
    log,            \* per hashtag collected, what became of each post yielded
    posts,          \* _collect_posts: posts
    seen_shortcodes,\* _collect_posts: seen_shortcodes
    skipped,        \* _collect_posts: skipped
    profile_cache,  \* owner_id -> Profile
    attempt,        \* _get_profile: attempt
    slept,          \* _get_profile: the backoff waits of the current lookup
    fetches,        \* _get_profile: the reads of post.owner_profile of the current lookup
    fetched,        \* the owner_ids whose profile fetch succeeded, in order
    merged,         \* crawl_multi_and: merged, in insertion order
    files,          \* the writes of _save_posts, in order
    result,         \* what the call returned or raised
    pair,           \* two whole runs over the same feeds (SpecPair), else None
    legacy,         \* the legacy collector of src/crawler.py (SpecLegacy), else None
    cli,            \* a run of main of cli.py (SpecCli), else None
    feed_error      \* Hashtag.from_name or the feed iterator raised in this call

vars ==
    <<call, config, pc, hidx, feeds, log, posts, seen_shortcodes, skipped,
      profile_cache, attempt, slept, fetches, fetched, merged, files, result, pair,
      legacy, cli, feed_error>>

\* the number of posts the iterators have yielded so far in this call
Yielded ==
    LET RECURSIVE Sum(_)
        Sum(i) == IF i = 0 THEN 0 ELSE Len(feeds[i]) + Sum(i - 1)
    IN Sum(Len(feeds))

\* the shortcodes the iterators have yielded so far in this call
YieldedShortcodes ==
    UNION {{feeds[i][j].shortcode : j \in 1..Len(feeds[i])} : i \in 1..Len(feeds)}

\* the post of the current loop iteration
CurrentPost == feeds[hidx][Len(feeds[hidx])]

Init ==
    /\ call \in Calls
    /\ config \in Configs
    /\ pc = "call"
    /\ hidx = 0
    /\ feeds = <<>>
    /\ log = <<>>
    /\ posts = <<>>
    /\ seen_shortcodes = {}
    /\ skipped = 0
    /\ profile_cache = <<>>
    /\ attempt = 0
    /\ slept = <<>>
    /\ fetches = 0
    /\ fetched = <<>>
    /\ merged = <<>>
    /\ files = <<>>
    /\ result = "pending"
    /\ pair = None
    /\ legacy = None
    /\ cli = None
    /\ feed_error = FALSE

----------------------------------------------------------------------------
(* Program constants *)

\* _get_profile: max_retries
max_retries == 3

\* _get_profile: the base of wait = 5 * (attempt + 1)
BackoffBase == 5

----------------------------------------------------------------------------
(* Actions *)

\* log with the entry of the current loop iteration set to what
SetLast(what) ==
    [log EXCEPT ![hidx] = SubSeq(@, 1, Len(@) - 1) \o <<what>>]

\* SavePosts losing the last record
SavePosts_DropsLast(ps, name) ==
    Append(files, [name |-> name, posts |-> SubSeq(ps, 1, Len(ps) - 1)])

\* _save_posts(posts, output_file): one write of the whole collection
SavePosts(ps, name) == Append(files, [name |-> name, posts |-> ps])

\* TooFewHashtags rejecting nothing
TooFewHashtags_Never(hashtags) == FALSE

\* crawl_multi_and: len(hashtags) < 2
TooFewHashtags(hashtags) == Len(hashtags) < 2

\* crawl and crawl_multi_and are entered
Call ==
    /\ pc = "call"
    /\ IF call.fn = "crawl_multi_and" /\ TooFewHashtags(call.hashtags)
       THEN /\ pc' = "done"
            /\ result' = "ValueError"
            /\ hidx' = hidx
       ELSE /\ pc' = "enter"
            /\ result' = result
            /\ hidx' = 1
    /\ profile_cache' = <<>>
    /\ merged' = <<>>
    /\ UNCHANGED <<pair, call, config, legacy, cli, feeds, log, posts, seen_shortcodes, feed_error, skipped,
                   attempt, slept, fetches, fetched, files>>

\* CacheAtEnter starting every feed with an empty cache
CacheAtEnter_Fresh(cache) == <<>>

\* _collect_posts: the cache its caller passed is used as it is. crawl passes
\* none and the fresh one is empty, as the cache of the call still is
CacheAtEnter(cache) == cache

\* _collect_posts up to its loop: Hashtag.from_name answers or raises
EnterCollect ==
    /\ pc = "enter"
    /\ \E answered \in BOOLEAN :
        IF answered
        THEN /\ pc' = "loop"
             /\ feeds' = Append(feeds, <<>>)
             /\ log' = Append(log, <<>>)
             /\ posts' = <<>>
             /\ seen_shortcodes' = {}
             /\ skipped' = 0
             /\ result' = result
             /\ feed_error' = feed_error
        ELSE /\ pc' = "done"
             /\ result' = "raised"
             /\ feed_error' = TRUE
             /\ UNCHANGED <<feeds, log, posts, seen_shortcodes, skipped>>
    /\ profile_cache' = CacheAtEnter(profile_cache)
    /\ UNCHANGED <<pair, call, config, legacy, cli, hidx, attempt, slept, fetches, fetched, merged,
                   files>>

\* MarksSeen storing the shortcode after the tag check only
MarksSeen_AfterTagCheck(d) == d = "enrich"

\* seen_shortcodes.add: reached by the posts that passed the dedup check, before
\* the tag check and before _process_post
MarksSeen(d) == d \in {"skip_tags", "enrich"}

\* one iteration of the loop of _collect_posts on the post the iterator yields,
\* up to the profile fetch of _get_profile
FeedYields ==
    /\ pc = "loop"
    /\ Yielded < MaxFeedLen
    /\ \E post \in FeedPosts(config, Cardinality(YieldedShortcodes)) :
        LET d == ItemDecision(post, Len(posts), seen_shortcodes, config, RequiredOf(call))
            owner_id == OwnerOf(post.shortcode)
            cached == owner_id \in DOMAIN profile_cache
            outcome == IF d = "enrich" THEN (IF cached THEN "kept" ELSE "fetching") ELSE d
        IN /\ feeds' = [feeds EXCEPT ![hidx] = Append(@, post)]
           /\ log' = [log EXCEPT ![hidx] = Append(@, outcome)]
           /\ pc' = CASE d \in {"break_capacity", "break_time"} -> "return"
                      [] d = "enrich" /\ ~cached -> "profile"
                      [] OTHER -> "loop"
           /\ skipped' = IF d \in {"skip_type", "skip_tags"} THEN skipped + 1 ELSE skipped
           /\ seen_shortcodes' =
                IF MarksSeen(d)
                THEN seen_shortcodes \cup {post.shortcode} ELSE seen_shortcodes
           /\ posts' = IF d = "enrich" /\ cached
                       THEN Append(posts, Record(post, profile_cache[owner_id]))
                       ELSE posts
    /\ attempt' = 0
    /\ slept' = <<>>
    /\ fetches' = 0
    /\ fetched' = fetched
    /\ UNCHANGED <<pair, call, config, legacy, cli, feed_error, hidx, profile_cache, merged, files, result>>

\* the iterator is exhausted: the loop ends and _collect_posts returns posts
FeedEnds ==
    /\ pc = "loop"
    /\ pc' = "return"
    /\ UNCHANGED <<pair, call, config, legacy, cli, hidx, feeds, log, posts, seen_shortcodes, feed_error, skipped,
                   profile_cache, attempt, slept, fetches, fetched, merged, files, result>>

\* FeedRaises giving up the hashtag only: its posts are dropped and the caller
\* goes on (best-effort continuation)
FeedRaises_SkipsHashtag ==
    /\ pc = "loop"
    /\ pc' = "return"
    /\ posts' = <<>>
    /\ feed_error' = TRUE
    /\ UNCHANGED <<pair, call, config, legacy, cli, hidx, feeds, log, seen_shortcodes, skipped,
                   profile_cache, attempt, slept, fetches, fetched, merged, files, result>>

\* FeedRaises ending the feed as if it were exhausted, keeping what was collected
FeedRaises_ReturnsCollected ==
    /\ pc = "loop"
    /\ pc' = "return"
    /\ feed_error' = TRUE
    /\ UNCHANGED <<pair, call, config, legacy, cli, hidx, feeds, log, posts, seen_shortcodes, skipped,
                   profile_cache, attempt, slept, fetches, fetched, merged, files, result>>

\* the iterator raises: the exception leaves _collect_posts and its caller
FeedRaises ==
    /\ pc = "loop"
    /\ pc' = "done"
    /\ result' = "raised"
    /\ feed_error' = TRUE
    /\ UNCHANGED <<pair, call, config, legacy, cli, hidx, feeds, log, posts, seen_shortcodes, skipped,
                   profile_cache, attempt, slept, fetches, fetched, merged, files>>

\* Wait with the same wait after every attempt
Wait_Flat(k) == BackoffBase

\* IsLastAttempt allowing one attempt more
IsLastAttempt_OneMore(k) == ~(k < max_retries)

\* StoreProfile leaving the cache as it was
StoreProfile_NoStore(cache, owner_id, profile) == cache

\* CacheOnFailure recording the owner of the failed lookup
CacheOnFailure_Stores(cache, owner_id) == cache @@ (owner_id :> [username |-> 0])

\* Caught catching nothing: a failed lookup leaves _process_post
Caught_Nothing(exc) == FALSE

\* _get_profile: wait = 5 * (attempt + 1)
Wait(k) == BackoffBase * (k + 1)

\* _get_profile: attempt < max_retries - 1 fails, the exception is raised again
IsLastAttempt(k) == ~(k < max_retries - 1)

\* _get_profile: cache[owner_id] = profile
StoreProfile(cache, owner_id, profile) == cache @@ (owner_id :> profile)

\* _get_profile: the except branch leaves the cache as it is
CacheOnFailure(cache, owner_id) == cache

\* _process_post: the exceptions its except clauses catch. ConnectionException
\* stands for the class and its subclasses (QueryReturnedNotFoundException,
\* TooManyRequestsException)
Caught(exc) == exc = "ConnectionException"

\* _get_profile: one attempt of post.owner_profile, and what _process_post and
\* _collect_posts do with its outcome
\* ProfileAttempt for a lookup that never answers
ProfileAttempt_Hangs ==
    /\ pc = "profile"
    /\ UNCHANGED vars

ProfileAttempt ==
    /\ pc = "profile"
    /\ fetches' = fetches + 1
    /\ \E outcome \in {"ok", "ConnectionException", "other"} :
        LET post == CurrentPost
            owner_id == OwnerOf(post.shortcode)
            profile == ProfileOf(owner_id)
        IN CASE outcome = "ok" ->
                  /\ profile_cache' = StoreProfile(profile_cache, owner_id, profile)
                  /\ fetched' = Append(fetched, owner_id)
                  /\ posts' = Append(posts, Record(post, profile))
                  /\ log' = SetLast("kept")
                  /\ pc' = "loop"
                  /\ UNCHANGED <<attempt, slept, result>>
             [] outcome = "ConnectionException" /\ ~IsLastAttempt(attempt) ->
                  /\ slept' = Append(slept, Wait(attempt))
                  /\ attempt' = attempt + 1
                  /\ UNCHANGED <<profile_cache, fetched, posts, log, pc, result>>
             [] OTHER ->
                  /\ profile_cache' = CacheOnFailure(profile_cache, owner_id)
                  /\ IF Caught(outcome)
                     THEN /\ log' = SetLast("dropped")
                          /\ pc' = "loop"
                          /\ result' = result
                     ELSE /\ log' = SetLast(outcome)
                          /\ pc' = "done"
                          /\ result' = "raised"
                  /\ UNCHANGED <<fetched, posts, attempt, slept>>
    /\ UNCHANGED <<pair, call, config, legacy, cli, hidx, feeds, seen_shortcodes, feed_error, skipped, merged, files>>

\* ReturnCrawl writing the file before the check of min_posts
ReturnCrawl_WritesFirst ==
    /\ pc = "return"
    /\ call.fn = "crawl"
    /\ pc' = "done"
    /\ files' = SavePosts(posts, <<call.hashtags[1]>>)
    /\ result' = IF Len(posts) < config.min_posts THEN "False" ELSE "True"
    /\ UNCHANGED <<pair, call, config, legacy, cli, feed_error, hidx, feeds, log, posts, seen_shortcodes, skipped,
                   profile_cache, attempt, slept, fetches, fetched, merged>>

\* BelowMin accepting one record fewer
BelowMin_OffByOne(n, cfg) == n < cfg.min_posts - 1

\* crawl, crawl_multi_and: len(posts) < config.min_posts
BelowMin(n, cfg) == n < cfg.min_posts

\* crawl after _collect_posts returned
ReturnCrawl ==
    /\ pc = "return"
    /\ call.fn = "crawl"
    /\ pc' = "done"
    /\ IF BelowMin(Len(posts), config)
       THEN /\ result' = "False"
            /\ files' = files
       ELSE \E io \in {"ok", "OSError"} :
              IF io = "ok"
              THEN /\ files' = SavePosts(posts, <<call.hashtags[1]>>)
                   /\ result' = "True"
              ELSE /\ files' = files
                   /\ result' = "raised"
    /\ UNCHANGED <<pair, call, config, legacy, cli, feed_error, hidx, feeds, log, posts, seen_shortcodes, skipped,
                   profile_cache, attempt, slept, fetches, fetched, merged>>

\* MergedFull never ending the loop over the hashtags
MergedFull_Never(n, cfg) == FALSE

\* crawl_multi_and: len(merged) >= config.max_posts
MergedFull(n, cfg) == n >= cfg.max_posts

\* ReturnMulti writing the merged posts after every hashtag
ReturnMulti_WritesEachFeed ==
    /\ pc = "return"
    /\ call.fn = "crawl_multi_and"
    /\ merged' = MergeInto(merged, posts)
    /\ files' = SavePosts(Take(merged', config.max_posts), Sorted(call.hashtags))
    /\ IF MergedFull(Len(merged'), config) \/ hidx = Len(call.hashtags)
       THEN /\ pc' = "done"
            /\ hidx' = hidx
            /\ result' = IF BelowMin(Len(Take(merged', config.max_posts)), config)
                         THEN "False" ELSE "True"
       ELSE /\ pc' = "enter"
            /\ hidx' = hidx + 1
            /\ result' = result
    /\ UNCHANGED <<pair, call, config, legacy, cli, feed_error, feeds, log, posts, seen_shortcodes, skipped,
                   profile_cache, attempt, slept, fetches, fetched>>

\* crawl_multi_and after _collect_posts returned: the merge, and either the next
\* hashtag or the end of the loop and the rest of the function
ReturnMulti ==
    /\ pc = "return"
    /\ call.fn = "crawl_multi_and"
    /\ merged' = MergeInto(merged, posts)
    /\ IF MergedFull(Len(merged'), config) \/ hidx = Len(call.hashtags)
       THEN LET all_posts == Take(merged', config.max_posts)
            IN /\ pc' = "done"
               /\ hidx' = hidx
               /\ IF BelowMin(Len(all_posts), config)
                  THEN /\ result' = "False"
                       /\ files' = files
                  ELSE \E io \in {"ok", "OSError"} :
                         IF io = "ok"
                         THEN /\ files' = SavePosts(all_posts, Sorted(call.hashtags))
                              /\ result' = "True"
                         ELSE /\ files' = files
                              /\ result' = "raised"
       ELSE /\ pc' = "enter"
            /\ hidx' = hidx + 1
            /\ UNCHANGED <<files, result>>
    /\ UNCHANGED <<pair, call, config, legacy, cli, feed_error, feeds, log, posts, seen_shortcodes, skipped,
                   profile_cache, attempt, slept, fetches, fetched>>

Next ==
    \/ Call
    \/ EnterCollect
    \/ FeedYields
    \/ FeedEnds
    \/ FeedRaises
    \/ ProfileAttempt
    \/ ReturnCrawl
    \/ ReturnMulti

Spec == Init /\ [][Next]_vars

----------------------------------------------------------------------------
(* Whole runs, as functions of the feeds: the same code in one step.  The    *)
(* feed of each hashtag is a given sequence of posts; the profile fetch of   *)
(* an owner in failing raises ConnectionException at every attempt, every   *)
(* other fetch succeeds at once.                                            *)

\* _collect_posts: the posts returned and the profile cache left
CollectPosts(feed, cfg, required, cache, failing) ==
    LET RECURSIVE Loop(_, _, _, _)
        Loop(i, ps, seen, ch) ==
            IF i > Len(feed) THEN [posts |-> ps, cache |-> ch]
            ELSE LET post == feed[i]
                     d == ItemDecision(post, Len(ps), seen, cfg, required)
                     owner_id == OwnerOf(post.shortcode)
                     seen1 == seen \cup {post.shortcode}
                 IN CASE d \in {"break_capacity", "break_time"} ->
                           [posts |-> ps, cache |-> ch]
                      [] d \in {"skip_type", "duplicate"} -> Loop(i + 1, ps, seen, ch)
                      [] d = "skip_tags" -> Loop(i + 1, ps, seen1, ch)
                      [] OTHER ->
                           IF owner_id \in DOMAIN ch
                           THEN Loop(i + 1, Append(ps, Record(post, ch[owner_id])), seen1, ch)
                           ELSE IF owner_id \in failing
                           THEN Loop(i + 1, ps, seen1, ch)
                           ELSE Loop(i + 1,
                                     Append(ps, Record(post, ProfileOf(owner_id))),
                                     seen1,
                                     ch @@ (owner_id :> ProfileOf(owner_id)))
    IN Loop(1, <<>>, {}, cache)

\* crawl_multi_and querying its first hashtag only
CrawlMultiAnd_FirstFeedOnly(hashtags, feedOf, cfg, failing) ==
    LET required == Some(RequiredTags(hashtags))
        first == CollectPosts(feedOf[hashtags[1]], cfg, required, <<>>, failing)
        all_posts == Take(MergeInto(<<>>, first.posts), cfg.max_posts)
    IN IF Len(all_posts) < cfg.min_posts
       THEN [result |-> "False", all_posts |-> all_posts, written |-> <<>>]
       ELSE [result |-> "True", all_posts |-> all_posts,
             written |-> <<[name |-> Sorted(hashtags), posts |-> all_posts]>>]

\* crawl_multi_and on two hashtags or more: what it returns, the merged posts it
\* ends with and what it writes
CrawlMultiAnd(hashtags, feedOf, cfg, failing) ==
    LET required == Some(RequiredTags(hashtags))
        RECURSIVE Each(_, _, _)
        Each(k, mg, ch) ==
            IF k > Len(hashtags) THEN mg
            ELSE LET got == CollectPosts(feedOf[hashtags[k]], cfg, required, ch, failing)
                     mg1 == MergeInto(mg, got.posts)
                 IN IF Len(mg1) >= cfg.max_posts THEN mg1
                    ELSE Each(k + 1, mg1, got.cache)
        all_posts == Take(Each(1, <<>>, <<>>), cfg.max_posts)
    IN IF Len(all_posts) < cfg.min_posts
       THEN [result |-> "False", all_posts |-> all_posts, written |-> <<>>]
       ELSE [result |-> "True", all_posts |-> all_posts,
             written |-> <<[name |-> Sorted(hashtags), posts |-> all_posts]>>]

\* the posts of the two feeds of a pair
PairPosts == Range(pair.feedOf.a) \cup Range(pair.feedOf.b)

InitPair ==
    /\ call = [fn |-> "crawl_multi_and", hashtags |-> <<"a", "b">>]
    /\ config \in {c \in Configs : c.min_posts = 1}
    /\ pair = [feedOf |-> [a |-> <<>>, b |-> <<>>], failing |-> {}, runs |-> <<>>]
    /\ pc = "pair"
    /\ legacy = None
    /\ cli = None
    /\ feed_error = FALSE
    /\ hidx = 0
    /\ feeds = <<>>
    /\ log = <<>>
    /\ posts = <<>>
    /\ seen_shortcodes = {}
    /\ skipped = 0
    /\ profile_cache = <<>>
    /\ attempt = 0
    /\ slept = <<>>
    /\ fetches = 0
    /\ fetched = <<>>
    /\ merged = <<>>
    /\ files = <<>>
    /\ result = "pending"

\* the remote side, before the runs: the feed of a hashtag holds one post more
\* (the feed of a is filled first, and both hold MaxFeedLen posts at most)
PairFeedGrows ==
    /\ pc = "pair"
    /\ Len(pair.feedOf.a) + Len(pair.feedOf.b) < MaxFeedLen
    /\ \E post \in FeedPosts(config, Cardinality({p.shortcode : p \in PairPosts})) :
        \/ /\ pair.feedOf.b = <<>>
           /\ pair' = [pair EXCEPT !.feedOf.a = Append(@, post)]
        \/ pair' = [pair EXCEPT !.feedOf.b = Append(@, post)]
    /\ UNCHANGED <<call, config, legacy, cli, pc, hidx, feeds, log, posts, seen_shortcodes, feed_error, skipped,
                   profile_cache, attempt, slept, fetches, fetched, merged, files, result>>

\* crawl_multi_and is run on [a, b] and on [b, a], over the same feeds and with
\* the same owners failing (none, or the owner of the first post)
RunBothOrders ==
    /\ pc = "pair"
    /\ pc' = "done"
    /\ \E failing \in {{}, {1}} :
        pair' = [pair EXCEPT
                   !.failing = failing,
                   !.runs = <<CrawlMultiAnd(<<"a", "b">>, pair.feedOf, config, failing),
                              CrawlMultiAnd(<<"b", "a">>, pair.feedOf, config, failing)>>]
    /\ UNCHANGED <<call, config, legacy, cli, hidx, feeds, log, posts, seen_shortcodes, feed_error, skipped,
                   profile_cache, attempt, slept, fetches, fetched, merged, files, result>>

NextPair ==
    \/ PairFeedGrows
    \/ RunBothOrders

SpecPair == InitPair /\ [][NextPair]_vars

----------------------------------------------------------------------------
(* What the claims speak of *)

\* the requested hashtags, lowercased
LoweredHashtags == {Lower(call.hashtags[i]) : i \in 1..Len(call.hashtags)}

\* a cutoff is configured, and its instant
CutoffSet == config.min_timestamp # None
Cutoff == config.min_timestamp[1]

\* every record the call holds or has written
OutputRecords ==
    Range(posts) \cup Range(merged)
    \cup UNION {Range(files[i].posts) : i \in 1..Len(files)}

\* the feed of the running _collect_posts call and what became of its posts
CurFeed == feeds[hidx]
CurLog == log[hidx]
Collecting == hidx >= 1 /\ Len(feeds) = hidx

\* the records of a sequence with a shortcode
WithShortcode(ps, s) == {i \in 1..Len(ps) : ps[i].shortcode = s}

\* the positions of a feed holding a shortcode, and those of them that are
\* single-image posts
Occurrences(feed, s) == {j \in 1..Len(feed) : feed[j].shortcode = s}
ImageOccurrences(feed, s) ==
    {j \in Occurrences(feed, s) : feed[j].typename = "GraphImage"}
Min(S) == CHOOSE x \in S : \A y \in S : x <= y

----------------------------------------------------------------------------
(* C1 *)

\* C1: the list accumulated by _collect_posts never holds more than max_posts
\* records, and neither does any collection written by crawl or crawl_multi_and
C1_CapacityBound ==
    /\ Len(posts) <= config.max_posts
    /\ \A i \in 1..Len(files) : Len(files[i].posts) <= config.max_posts

\* a collection that stopped at capacity: the loop met a further post and broke
C1_Witness ==
    /\ pc = "return"
    /\ Len(posts) = config.max_posts
    /\ CurLog[Len(CurLog)] = "break_capacity"

----------------------------------------------------------------------------
(* C2 *)

\* C2 (as claimed): once posts holds max_posts records the feed iterator is not
\* advanced again: no further post is requested from the feed
C2_NoFetchAtCapacity ==
    [][(pc = "loop" /\ Len(posts) >= config.max_posts) => feeds' = feeds]_vars

----------------------------------------------------------------------------
(* C3 *)

\* C3 (as claimed): when _collect_posts returns, a shortcode the feed held more
\* than once has exactly one record, the one of its first occurrence
C3_ExactlyOneFromFirst ==
    (pc = "return") =>
        \A s \in Shortcodes :
            Cardinality(Occurrences(CurFeed, s)) > 1 =>
                /\ Cardinality(WithShortcode(posts, s)) = 1
                /\ \A i \in WithShortcode(posts, s) :
                     posts[i] = Record(CurFeed[Min(Occurrences(CurFeed, s))],
                                       ProfileOf(OwnerOf(s)))

\* C3 (amended): a shortcode the feed held more than once has at most one
\* record, and that record is the one of its first single-image occurrence
C3_AtMostOneFromFirstImage ==
    Collecting =>
        \A s \in Shortcodes :
            Cardinality(Occurrences(CurFeed, s)) > 1 =>
                /\ Cardinality(WithShortcode(posts, s)) <= 1
                /\ \A i \in WithShortcode(posts, s) :
                     /\ ImageOccurrences(CurFeed, s) # {}
                     /\ posts[i] = Record(CurFeed[Min(ImageOccurrences(CurFeed, s))],
                                          ProfileOf(OwnerOf(s)))

\* a returned collection with the record of a shortcode that the feed held twice
\* as a single-image post, with different captions
C3_Witness ==
    /\ pc = "return"
    /\ \E s \in Shortcodes :
        /\ WithShortcode(posts, s) # {}
        /\ \E j, k \in ImageOccurrences(CurFeed, s) :
             j < k /\ CurFeed[j].caption_hashtags # CurFeed[k].caption_hashtags

----------------------------------------------------------------------------
(* C4 *)

\* C4: in crawl_multi_and every record collected, merged or written carries
\* every lowercased requested hashtag
C4_TagContainment ==
    (call.fn = "crawl_multi_and") =>
        \A r \in OutputRecords : LoweredHashtags \subseteq r.tags

\* an intersection search that wrote a record after its feed held a single-image
\* post lacking a requested tag
C4_Witness ==
    /\ call.fn = "crawl_multi_and"
    /\ files # <<>>
    /\ files[1].posts # <<>>
    /\ \E h \in 1..Len(log) : \E j \in 1..Len(log[h]) : log[h][j] = "skip_tags"

----------------------------------------------------------------------------
(* C5 *)

----------------------------------------------------------------------------
(* C6 *)

\* C6: with a cutoff, a post earlier than it is the last its feed is asked for:
\* the loop breaks on it and _collect_posts returns
C6_CutoffEndsPagination ==
    CutoffSet =>
        \A h \in 1..Len(feeds) : \A j \in 1..Len(feeds[h]) :
            feeds[h][j].date_utc < Cutoff =>
                /\ j = Len(feeds[h])
                /\ log[h][j] \in {"break_time", "break_capacity"}
                /\ h = hidx => pc \in {"return", "done"}

\* a collection that kept a post and then broke on an older one
C6_Witness ==
    /\ pc = "return"
    /\ CutoffSet
    /\ posts # <<>>
    /\ CurFeed[Len(CurFeed)].date_utc < Cutoff
    /\ CurLog[Len(CurLog)] = "break_time"

----------------------------------------------------------------------------
(* C7 *)

\* the records the finished call collected: posts in crawl, merged in
\* crawl_multi_and
CollectedCount == IF call.fn = "crawl" THEN Len(posts) ELSE Len(merged)

\* C7: a call that ends with fewer than min_posts records returns False and has
\* written nothing
C7_BelowMinNoWrite ==
    (pc = "done" /\ result \in {"True", "False"} /\ CollectedCount < config.min_posts) =>
        /\ result = "False"
        /\ files = <<>>

\* a call that collected a record, but fewer than min_posts, and returned False
C7_Witness ==
    /\ pc = "done"
    /\ result = "False"
    /\ CollectedCount >= 1
    /\ CollectedCount < config.min_posts
    /\ files = <<>>

----------------------------------------------------------------------------
(* C8 *)

\* the shortcodes a run wrote
OutShortcodes(run) ==
    UNION {{w.posts[i].shortcode : i \in 1..Len(w.posts)} : w \in Range(run.written)}

BothRun == pair # None /\ pair.runs # <<>>

\* C8 (as claimed): crawl_multi_and on [a, b] and on [b, a] write the same set
\* of shortcodes
C8_OrderIndependent ==
    BothRun => OutShortcodes(pair.runs[1]) = OutShortcodes(pair.runs[2])

\* C8 (amended): they do when one of the two runs ends with fewer than max_posts
\* merged posts, and then they return the same too
C8_OrderIndependentBelowCapacity ==
    ( /\ BothRun
      /\ \E k \in 1..2 : Len(pair.runs[k].all_posts) < config.max_posts ) =>
        /\ OutShortcodes(pair.runs[1]) = OutShortcodes(pair.runs[2])
        /\ pair.runs[1].result = pair.runs[2].result

\* both orders wrote the same post, which the feed of b alone holds, while the
\* feed of a holds another post
C8_Witness ==
    /\ BothRun
    /\ Len(pair.runs[1].all_posts) < config.max_posts
    /\ pair.runs[1].result = "True"
    /\ pair.feedOf.a # <<>>
    /\ \E s \in OutShortcodes(pair.runs[1]) :
         \A p \in Range(pair.feedOf.a) : p.shortcode # s

----------------------------------------------------------------------------
(* C9 *)

\* the posts the feeds of the call have yielded
AllYielded == UNION {Range(feeds[h]) : h \in 1..Len(feeds)}

\* a post has one media type and one caption: the posts yielded under one
\* shortcode agree on both
OnePostPerShortcode ==
    \A p, q \in AllYielded :
        p.shortcode = q.shortcode =>
            /\ p.typename = q.typename
            /\ p.caption_hashtags = q.caption_hashtags

\* no post was dropped because its enrichment failed
EnrichmentSucceeded ==
    \A h \in 1..Len(log) : \A j \in 1..Len(log[h]) : log[h][j] # "dropped"

\* the single-image posts of the feeds whose tags hold every requested hashtag
QualifyingShortcodes ==
    {p.shortcode : p \in {q \in AllYielded :
                            /\ q.typename = "GraphImage"
                            /\ LoweredHashtags \subseteq q.caption_hashtags}}

\* C9: without a cutoff, with every enrichment succeeding and fewer qualifying
\* posts than max_posts, the file crawl_multi_and writes holds exactly the
\* single-image posts of the feeds that carry every requested hashtag, each once
\* (and the call returns False only when these are fewer than min_posts)
C9_IntersectionOutput ==
    ( /\ pc = "done"
      /\ call.fn = "crawl_multi_and"
      /\ result \in {"True", "False"}
      /\ ~CutoffSet
      /\ EnrichmentSucceeded
      /\ OnePostPerShortcode
      /\ Cardinality(QualifyingShortcodes) < config.max_posts ) =>
        /\ result = "True" =>
             /\ Len(files) = 1
             /\ {files[1].posts[i].shortcode : i \in 1..Len(files[1].posts)}
                  = QualifyingShortcodes
             /\ Len(files[1].posts) = Cardinality(QualifyingShortcodes)
        /\ result = "False" => Cardinality(QualifyingShortcodes) < config.min_posts

\* an intersection search that wrote a post both feeds held, and left out a
\* single-image post lacking a requested tag
C9_Witness ==
    /\ pc = "done"
    /\ call.fn = "crawl_multi_and"
    /\ result = "True"
    /\ ~CutoffSet
    /\ EnrichmentSucceeded
    /\ OnePostPerShortcode
    /\ Cardinality(QualifyingShortcodes) < config.max_posts
    /\ Len(feeds) = 2
    /\ \E p \in Range(feeds[1]) \cap Range(feeds[2]) :
         p.shortcode \in QualifyingShortcodes
    /\ \E p \in AllYielded :
         p.typename = "GraphImage" /\ p.shortcode \notin QualifyingShortcodes

----------------------------------------------------------------------------
(* C10 *)

\* the elements of a set of numbers in ascending order
RECURSIVE Ascending(_)
Ascending(S) == IF S = {} THEN <<>> ELSE <<Min(S)>> \o Ascending(S \ {Min(S)})

\* the positions of the distinct single-image posts of a feed: a single-image
\* post counts at its first occurrence
DistinctImages(feed) ==
    Ascending({j \in 1..Len(feed) :
                 /\ feed[j].typename = "GraphImage"
                 /\ \A i \in 1..(j - 1) :
                      ~(feed[i].typename = "GraphImage"
                        /\ feed[i].shortcode = feed[j].shortcode)})

\* C10: without a cutoff and with every enrichment succeeding, crawl's
\* _collect_posts returns the records of the first max_posts distinct
\* single-image posts of the feed, in feed order (all of them when there are fewer)
C10_FirstMaxInFeedOrder ==
    ( /\ pc = "return"
      /\ call.fn = "crawl"
      /\ ~CutoffSet
      /\ EnrichmentSucceeded ) =>
        LET first == Take(DistinctImages(CurFeed), config.max_posts)
        IN /\ Len(posts) = Len(first)
           /\ \A k \in 1..Len(first) :
                posts[k] = Record(CurFeed[first[k]],
                                  ProfileOf(OwnerOf(CurFeed[first[k]].shortcode)))

\* a collection that skipped a video, kept max_posts single-image posts and
\* broke at capacity on a further distinct single-image post
C10_Witness ==
    /\ pc = "return"
    /\ call.fn = "crawl"
    /\ ~CutoffSet
    /\ EnrichmentSucceeded
    /\ Len(posts) = config.max_posts
    /\ Len(DistinctImages(CurFeed)) > config.max_posts
    /\ \E j \in 1..Len(CurLog) : CurLog[j] = "skip_type"

----------------------------------------------------------------------------
(* C11 *)

\* the loop iteration on the current post has ended, with outcome what
LastOutcome(what) ==
    /\ Collecting
    /\ pc = "loop"
    /\ CurLog # <<>>
    /\ CurLog[Len(CurLog)] = what

\* the lookup of the current post succeeded on its third attempt, after two
\* attempts raised
ThirdAttemptSucceeded ==
    /\ LastOutcome("kept")
    /\ fetches = 3
    /\ attempt = 2

\* C11: when the profile fetch of a post fails twice and succeeds on the third
\* attempt, the record of the post is the last one collected, exactly the two
\* waits 5 and 10 were taken, and the cache holds the fetched profile
C11_ThirdAttemptKeepsPost ==
    ThirdAttemptSucceeded =>
        LET owner_id == OwnerOf(CurrentPost.shortcode)
        IN /\ posts # <<>>
           /\ posts[Len(posts)] = Record(CurrentPost, ProfileOf(owner_id))
           /\ slept = <<5, 10>>
           /\ owner_id \in DOMAIN profile_cache
           /\ profile_cache[owner_id] = ProfileOf(owner_id)

\* a lookup that succeeded on its third attempt, in the second iteration of a feed
C11_Witness ==
    /\ ThirdAttemptSucceeded
    /\ Len(CurLog) = 2
    /\ Len(slept) = 2

----------------------------------------------------------------------------
(* C12 *)

\* C12: a step in which the enrichment of the current post fails for good with
\* a ConnectionException (NotFound, a connection error, or a rate limit on the
\* third attempt) drops that post only: the call goes on with the loop, nothing
\* is raised, and the records collected, merged and written stay as they were
C12_FailureDropsOnlyThatPost ==
    [][( /\ pc = "profile"
         /\ log'[hidx][Len(log'[hidx])] \in {"dropped", "ConnectionException"} ) =>
            /\ log'[hidx][Len(log'[hidx])] = "dropped"
            /\ pc' = "loop"
            /\ result' = "pending"
            /\ posts' = posts
            /\ merged' = merged
            /\ files' = files
            /\ feeds' = feeds]_vars

\* a feed whose first post was kept, whose second was dropped after three
\* failed attempts, and whose third was processed and kept
C12_Witness ==
    /\ Collecting
    /\ CurLog = <<"kept", "dropped", "kept">>
    /\ Len(posts) = 2
    /\ posts[1].shortcode = CurFeed[1].shortcode
    /\ posts[2].shortcode = CurFeed[3].shortcode

----------------------------------------------------------------------------
(* C13 *)

\* C13: a lookup reads post.owner_profile at most 3 times; while it is under
\* way every read so far has failed and fewer than 3 were made, and once 3 were
\* made the lookup is over: the profile was returned or the third failure was
\* raised to _process_post
C13_AtMostThreeFetches ==
    /\ fetches <= 3
    /\ pc = "profile" => (fetches = attempt /\ fetches < 3)
    /\ (fetches = 3 /\ Collecting /\ CurLog # <<>>) =>
          CurLog[Len(CurLog)] \in {"kept", "dropped", "other"}

\* a lookup whose three attempts all failed with a ConnectionException
C13_Witness ==
    /\ LastOutcome("dropped")
    /\ fetches = 3
    /\ Len(slept) = 2

----------------------------------------------------------------------------
(* C14 *)

\* a lookup was made for the post of the current iteration
InLookup == Collecting /\ CurLog # <<>> /\ pc \in {"loop", "profile", "return"}

\* the attempts of that lookup that raised a ConnectionException
FailedAttempts ==
    IF pc = "profile" \/ CurLog[Len(CurLog)] = "dropped" THEN fetches
    ELSE IF fetches = 0 THEN 0
    ELSE fetches - 1

\* C14 (as claimed): the waits taken after the failed attempts of a lookup are
\* 5, 10, 15, one after each of the three attempts
C14_Schedule5_10_15 ==
    InLookup => slept = Take(<<5, 10, 15>>, FailedAttempts)

\* C14 (amended): the wait after the k-th failed attempt is 5 * k for k = 1, 2,
\* and no wait follows the third: the waits are 5, 10
C14_Schedule5_10 ==
    InLookup =>
        /\ slept = Take(<<5, 10>>, FailedAttempts)
        /\ \A k \in 1..Len(slept) : slept[k] = 5 * k

\* a lookup whose three attempts failed: two waits were taken, none after the
\* third failure
C14_Witness ==
    /\ InLookup
    /\ FailedAttempts = 3
    /\ slept = <<5, 10>>
    /\ CurLog[Len(CurLog)] = "dropped"

----------------------------------------------------------------------------
(* C15 *)

\* the records collected so far in the call
RecordsSoFar == Range(posts) \cup Range(merged)

\* C15: once the profile of an owner was fetched it stays in the cache of the
\* call, no fetch is made for that owner again (in crawl_multi_and, in none of
\* the feeds), so no owner is fetched with success twice, and every record of
\* that owner carries the cached profile
C15_FetchedOnceThenCached ==
    /\ \A i, j \in 1..Len(fetched) : fetched[i] = fetched[j] => i = j
    /\ DOMAIN profile_cache = Range(fetched)
    /\ pc = "profile" => OwnerOf(CurrentPost.shortcode) \notin Range(fetched)
    /\ \A r \in RecordsSoFar :
          /\ r.user_id \in DOMAIN profile_cache
          /\ r.username = profile_cache[r.user_id].username

\* crawl_multi_and: the first post of the second feed is kept without a fetch,
\* its owner's profile having been fetched during the first feed
C15_Witness ==
    /\ call.fn = "crawl_multi_and"
    /\ hidx = 2
    /\ LastOutcome("kept")
    /\ Len(CurLog) = 1
    /\ fetches = 0
    /\ fetched = <<OwnerOf(CurrentPost.shortcode)>>

----------------------------------------------------------------------------
(* C16 *)

\* C16: a lookup that fails leaves no entry for the owner in the cache, and a
\* post that reaches enrichment while its owner was never fetched with success
\* (a failed lookup before it or not) starts a lookup with a fetch, at attempt 0
C16_FailedLookupNotCached ==
    [][/\ ( /\ pc = "profile"
            /\ pc' # "profile"
            /\ log'[hidx][Len(log'[hidx])] # "kept" ) =>
              OwnerOf(CurrentPost.shortcode) \notin DOMAIN profile_cache'
       /\ ( /\ pc = "loop"
            /\ feeds' # feeds
            /\ log'[hidx][Len(log'[hidx])] \in {"kept", "fetching"}
            /\ OwnerOf(CurrentPost'.shortcode) \notin Range(fetched) ) =>
              /\ log'[hidx][Len(log'[hidx])] = "fetching"
              /\ pc' = "profile"
              /\ attempt' = 0
              /\ fetches' = 0
              /\ slept' = <<>>]_vars

\* after the lookup for a post failed, a later post of the same owner is being
\* looked up afresh
C16_Witness ==
    /\ Collecting
    /\ pc = "profile"
    /\ fetches = 0
    /\ \E j \in 1..(Len(CurLog) - 1) :
         /\ CurLog[j] = "dropped"
         /\ CurFeed[j].shortcode # CurrentPost.shortcode
         /\ OwnerOf(CurFeed[j].shortcode) = OwnerOf(CurrentPost.shortcode)

----------------------------------------------------------------------------
(* C17 *)

\* no feed was queried, no profile fetched and nothing written
NothingDone ==
    /\ feeds = <<>>
    /\ hidx = 0
    /\ fetches = 0
    /\ fetched = <<>>
    /\ profile_cache = <<>>
    /\ files = <<>>

\* C17: crawl_multi_and called with fewer than 2 hashtags raises ValueError, and
\* does so before any feed query, profile fetch or write
C17_TooFewHashtagsRejected ==
    (call.fn = "crawl_multi_and" /\ Len(call.hashtags) < 2) =>
        /\ pc \in {"call", "done"}
        /\ pc = "done" => result = "ValueError"
        /\ NothingDone

\* crawl_multi_and with one hashtag has raised ValueError
C17_Witness ==
    /\ call.fn = "crawl_multi_and"
    /\ Len(call.hashtags) = 1
    /\ pc = "done"
    /\ result = "ValueError"

----------------------------------------------------------------------------
(* C18 *)

\* calls of crawl_multi_and whose hashtags are one tag twice, or two spellings
\* of one tag
DupCalls ==
    {[fn |-> "crawl_multi_and", hashtags |-> hs] : hs \in {<<"a", "a">>, <<"a", "A">>}}

InitDup ==
    /\ call \in DupCalls
    /\ config \in Configs
    /\ pc = "call"
    /\ hidx = 0
    /\ feeds = <<>>
    /\ log = <<>>
    /\ posts = <<>>
    /\ seen_shortcodes = {}
    /\ skipped = 0
    /\ profile_cache = <<>>
    /\ attempt = 0
    /\ slept = <<>>
    /\ fetches = 0
    /\ fetched = <<>>
    /\ merged = <<>>
    /\ files = <<>>
    /\ result = "pending"
    /\ pair = None
    /\ legacy = None
    /\ cli = None
    /\ feed_error = FALSE

NextDup ==
    \/ Call
    \/ EnterCollect
    \/ FeedYields
    \/ FeedEnds
    \/ FeedRaises
    \/ ProfileAttempt
    \/ ReturnMulti

\* crawl_multi_and on such calls
SpecDup == InitDup /\ [][NextDup]_vars

\* C18 (as claimed): crawl_multi_and called with fewer than 2 distinct hashtags
\* (after lowercasing) is rejected before anything is done, and never collects
\* with a required tag set of size 1
C18_DistinctHashtagsRequired ==
    (call.fn = "crawl_multi_and" /\ Cardinality(RequiredTags(call.hashtags)) < 2) =>
        /\ pc \in {"call", "done"}
        /\ pc = "done" => result = "ValueError"
        /\ NothingDone

----------------------------------------------------------------------------
(* C19 *)

\* C19 (as claimed): a call of crawl or crawl_multi_and whose configuration has
\* min_posts > max_posts raises an invalid-argument error at once, before any
\* feed query or profile fetch
C19_MinAboveMaxRejected ==
    (config.min_posts > config.max_posts /\ pc \notin {"call", "pair"}) =>
        /\ pc = "done"
        /\ result = "ValueError"
        /\ NothingDone

----------------------------------------------------------------------------
(* C20 *)

\* C20: a call whose configuration has min_posts > max_posts never returns
\* True and never writes a file
C20_MinAboveMaxNeverSucceeds ==
    config.min_posts > config.max_posts =>
        /\ result # "True"
        /\ files = <<>>

\* such a call collected max_posts records (crawl) or merged max_posts records
\* (crawl_multi_and) and returned False
C20_Witness ==
    /\ config.min_posts > config.max_posts
    /\ pc = "done"
    /\ result = "False"
    /\ CollectedCount >= config.max_posts
    /\ files = <<>>

----------------------------------------------------------------------------
(* C21 *)

\* C21: in crawl_multi_and, once merged holds max_posts records or more the
\* loop over the hashtags is left and no further feed is queried, and what is
\* written is merged cut to its first max_posts records
C21_FullStopsAndTruncates ==
    call.fn = "crawl_multi_and" =>
        /\ Len(merged) >= config.max_posts => (pc = "done" /\ Len(feeds) = hidx)
        /\ pc \in {"enter", "loop", "profile", "return"} => Len(merged) < config.max_posts
        /\ \A i \in 1..Len(files) :
              /\ files[i].posts = Take(merged, config.max_posts)
              /\ Len(files[i].posts) <= config.max_posts

\* the first feed filled merged: the second hashtag was not queried, and the
\* file holds max_posts records
C21_Witness ==
    /\ call.fn = "crawl_multi_and"
    /\ Len(call.hashtags) = 2
    /\ pc = "done"
    /\ Len(feeds) = 1
    /\ Len(merged) >= config.max_posts
    /\ Len(files) = 1
    /\ Len(files[1].posts) = config.max_posts

----------------------------------------------------------------------------
(* C22 *)

\* the records _collect_posts may build for single-image posts: two records of
\* one post differ when its caption changed between two feeds
MergeRecords ==
    {Record(p, ProfileOf(OwnerOf(p.shortcode))) :
        p \in {q \in Posts : q.typename = "GraphImage" /\ q.date_utc = 2}}

\* what a call of _collect_posts may return: at most max_posts records, no
\* shortcode twice
Returned ==
    {ps \in UNION {[1..n -> MergeRecords] : n \in 0..MaxPostsBound} :
        \A i, j \in 1..Len(ps) : ps[i].shortcode = ps[j].shortcode => i = j}

\* crawl_multi_and on two hashtags, seen from its merge: posts is what
\* _collect_posts returned for the hashtag at hand, and feeds keeps what it
\* returned for the hashtags merged so far
InitMerge ==
    /\ call = [fn |-> "crawl_multi_and", hashtags |-> <<"a", "A">>]
    /\ config \in {c \in Configs : c.max_posts = MaxPostsBound /\ c.min_posts = 1
                                    /\ c.min_timestamp = None}
    /\ pc = "merge"
    /\ hidx = 1
    /\ posts \in Returned
    /\ merged = <<>>
    /\ feeds = <<>>
    /\ log = <<>>
    /\ seen_shortcodes = {}
    /\ skipped = 0
    /\ profile_cache = <<>>
    /\ attempt = 0
    /\ slept = <<>>
    /\ fetches = 0
    /\ fetched = <<>>
    /\ files = <<>>
    /\ result = "pending"
    /\ pair = None
    /\ legacy = None
    /\ cli = None
    /\ feed_error = FALSE

\* the loop body of crawl_multi_and after _collect_posts returned: the posts
\* are merged, and the next hashtag returns its posts
MergeReturned ==
    /\ pc = "merge"
    /\ merged' = MergeInto(merged, posts)
    /\ feeds' = Append(feeds, posts)
    /\ IF hidx < Len(call.hashtags)
       THEN /\ hidx' = hidx + 1
            /\ posts' \in Returned
            /\ pc' = pc
       ELSE /\ pc' = "done"
            /\ UNCHANGED <<hidx, posts>>
    /\ UNCHANGED <<pair, call, config, legacy, cli, log, seen_shortcodes, feed_error, skipped, profile_cache,
                   attempt, slept, fetches, fetched, files, result>>

NextMerge == MergeReturned

SpecMerge == InitMerge /\ [][NextMerge]_vars

\* the first of the merged feeds that returned a record under shortcode s
FirstFeedWith(s) ==
    Min({k \in 1..Len(feeds) : WithShortcode(feeds[k], s) # {}})

\* C22: merged holds one record per shortcode returned, the one the earliest
\* feed returned under it, and a later feed neither replaces nor moves a
\* record merged before: merged starts with the records of the first feed
C22_FirstOccurrenceWins ==
    /\ \A k \in 1..Len(feeds) : \A i \in 1..Len(feeds[k]) :
          LET s == feeds[k][i].shortcode
              first == feeds[FirstFeedWith(s)]
          IN /\ Cardinality(WithShortcode(merged, s)) = 1
             /\ \A m \in WithShortcode(merged, s) : \A f \in WithShortcode(first, s) :
                   merged[m] = first[f]
    /\ \A m \in 1..Len(merged) : \E k \in 1..Len(feeds) : merged[m] \in Range(feeds[k])
    /\ Len(feeds) >= 1 => SubSeq(merged, 1, Len(feeds[1])) = feeds[1]

\* both feeds returned a post, with different records, and merged holds the
\* record of the first feed
C22_Witness ==
    /\ Len(feeds) = 2
    /\ \E i \in 1..Len(feeds[1]) : \E j \in 1..Len(feeds[2]) :
         /\ feeds[1][i].shortcode = feeds[2][j].shortcode
         /\ feeds[1][i] # feeds[2][j]
         /\ feeds[1][i] \in Range(merged)
         /\ feeds[2][j] \notin Range(merged)

----------------------------------------------------------------------------
(* C23 *)

\* C23: crawl returns True exactly when _collect_posts returned min_posts
\* records or more, and then the one file written, named after the hashtag,
\* holds the records returned, all of them and in their order
C23_CrawlWritesWhatWasCollected ==
    (call.fn = "crawl" /\ pc = "done" /\ result \in {"True", "False"}) =>
        /\ result = "True" <=> Len(posts) >= config.min_posts
        /\ result = "True" =>
              files = <<[name |-> <<call.hashtags[1]>>, posts |-> posts]>>

\* crawl returned True on two records, written in the order collected
C23_Witness ==
    /\ call.fn = "crawl"
    /\ pc = "done"
    /\ result = "True"
    /\ Len(posts) = 2
    /\ Len(files) = 1
    /\ files[1].posts = posts
    /\ posts[1] # posts[2]

----------------------------------------------------------------------------
(* C24 *)

\* C24: a call writes at most once, and only at its end, after its last
\* _collect_posts call returned: while it collects nothing is written, and a
\* call that an exception left wrote nothing
C24_OneWriteAfterCollection ==
    /\ Len(files) <= 1
    /\ files # <<>> => (pc = "done" /\ result = "True")
    /\ result = "raised" => files = <<>>

\* crawl_multi_and collected and merged the posts of its first feed, and an
\* exception left the second: nothing was written
C24_Witness ==
    /\ call.fn = "crawl_multi_and"
    /\ pc = "done"
    /\ result = "raised"
    /\ hidx = 2
    /\ merged # <<>>
    /\ files = <<>>

----------------------------------------------------------------------------
(* The legacy collector: get_posts of src/crawler.py *)

\* calls of api.feed_tag in one call of get_posts
MaxLegacyFetches == 4

\* items on one page of the tag feed
MaxPageItems == 2

\* get_posts: sleep(60)
LegacyWait == 60

\* the page of the tag feed at cursor c: n items, and the cursor of the next
\* page when there is one (0 stands for no next_max_id)
Page(c, n, more) ==
    [items |-> [k \in 1..n |-> <<c, k>>], next_max_id |-> IF more THEN c + 1 ELSE 0]

\* the pages api.feed_tag may return at cursor c
Pages(c) == {Page(c, n, more) : n \in 0..MaxPageItems, more \in BOOLEAN}

\* config of the legacy crawler: min_timestamp and max_collect_media
LegacyConfigs ==
    [min_timestamp : {None, Some(2)}, max_collect_media : 1..(MaxPostsBound + 1)]

InitLegacy ==
    /\ legacy \in {[pc |-> "first", config |-> c, feed |-> <<>>, results |-> None,
                     next_max_id |-> 0, slept |-> <<>>, calls |-> <<>>,
                     result |-> "pending"] : c \in LegacyConfigs}
    /\ call = [fn |-> "get_posts", hashtags |-> <<"a">>]
    /\ config \in {c \in Configs : c.max_posts = MaxPostsBound /\ c.min_posts = 1
                                    /\ c.min_timestamp = None}
    /\ pc = "legacy"
    /\ hidx = 0
    /\ feeds = <<>>
    /\ log = <<>>
    /\ posts = <<>>
    /\ seen_shortcodes = {}
    /\ skipped = 0
    /\ profile_cache = <<>>
    /\ attempt = 0
    /\ slept = <<>>
    /\ fetches = 0
    /\ fetched = <<>>
    /\ merged = <<>>
    /\ files = <<>>
    /\ result = "pending"
    /\ pair = None
    /\ cli = None
    /\ feed_error = FALSE

\* get_posts up to its loop: the first api.feed_tag call, which returns a page
\* or raises (every exception is raised again)
LegacyFirstPage ==
    /\ legacy.pc = "first"
    /\ \/ \E results \in Pages(1) :
            legacy' = [legacy EXCEPT
                         !.calls = Append(@, [max_id |-> 0, outcome |-> "ok"]),
                         !.results = results,
                         !.feed = @ \o results.items,
                         !.next_max_id =
                             IF legacy.config.min_timestamp # None THEN @
                             ELSE results.next_max_id,
                         !.pc = IF legacy.config.min_timestamp # None THEN "done"
                                ELSE "loop",
                         !.result = IF legacy.config.min_timestamp # None
                                    THEN "returned" ELSE @]
       \/ legacy' = [legacy EXCEPT
                        !.calls = Append(@, [max_id |-> 0, outcome |-> "raised"]),
                        !.pc = "done",
                        !.result = "raised"]
    /\ UNCHANGED <<call, config, pc, hidx, feeds, log, posts, seen_shortcodes, feed_error, skipped,
                   profile_cache, attempt, slept, fetches, fetched, merged, files, result,
                   pair, cli>>

\* the condition of the while loop of get_posts
LegacyMore ==
    legacy.next_max_id # 0 /\ Len(legacy.feed) < legacy.config.max_collect_media

\* one iteration of the while loop of get_posts: api.feed_tag at next_max_id
\* returns a page, raises the "please wait" Bad Request, or raises otherwise.
\* After the wait the loop body goes on with the results of the call before
LegacyNextPage ==
    /\ legacy.pc = "loop"
    /\ LegacyMore
    /\ Len(legacy.calls) < MaxLegacyFetches
    /\ \/ \E results \in Pages(legacy.next_max_id) :
            legacy' = [legacy EXCEPT
                         !.calls = Append(@, [max_id |-> legacy.next_max_id,
                                              outcome |-> "ok"]),
                         !.results = results,
                         !.feed = @ \o results.items,
                         !.next_max_id = results.next_max_id]
       \/ legacy' = [legacy EXCEPT
                        !.calls = Append(@, [max_id |-> legacy.next_max_id,
                                             outcome |-> "wait"]),
                        !.slept = Append(@, LegacyWait),
                        !.feed = @ \o legacy.results.items,
                        !.next_max_id = legacy.results.next_max_id]
       \/ legacy' = [legacy EXCEPT
                        !.calls = Append(@, [max_id |-> legacy.next_max_id,
                                             outcome |-> "raised"]),
                        !.pc = "done",
                        !.result = "raised"]
    /\ UNCHANGED <<call, config, pc, hidx, feeds, log, posts, seen_shortcodes, feed_error, skipped,
                   profile_cache, attempt, slept, fetches, fetched, merged, files, result,
                   pair, cli>>

\* the while loop of get_posts ends and feed is returned
LegacyReturn ==
    /\ legacy.pc = "loop"
    /\ ~LegacyMore
    /\ legacy' = [legacy EXCEPT !.pc = "done", !.result = "returned"]
    /\ UNCHANGED <<call, config, pc, hidx, feeds, log, posts, seen_shortcodes, feed_error, skipped,
                   profile_cache, attempt, slept, fetches, fetched, merged, files, result,
                   pair, cli>>

NextLegacy ==
    \/ LegacyFirstPage
    \/ LegacyNextPage
    \/ LegacyReturn

SpecLegacy == InitLegacy /\ [][NextLegacy]_vars

----------------------------------------------------------------------------
(* C25 *)

\* the calls of api.feed_tag made at cursor c, and those among them that
\* raised the "please wait" Bad Request
CallsAt(c) == {i \in 1..Len(legacy.calls) : legacy.calls[i].max_id = c}
WaitsAt(c) == {i \in CallsAt(c) : legacy.calls[i].outcome = "wait"}

\* C25 (as claimed): a page fetch that raises the "please wait" error is
\* followed by one wait of 60 and one retry of that page, and the page is not
\* retried a second time: no cursor is asked for more than twice
C25_SingleRetry ==
    /\ \A i \in 1..Len(legacy.slept) : legacy.slept[i] = 60
    /\ \A c \in 1..MaxLegacyFetches :
          /\ Cardinality(CallsAt(c)) <= 2
          /\ Cardinality(WaitsAt(c)) <= 1


\* ---------------------------------------------------------------------------
\* C26: an error of the feed query (Hashtag.from_name or the iterator) ends the
\* whole call: the exception leaves _collect_posts and its caller, nothing is
\* returned and no output file is written, whatever was collected so far.
C26_FeedErrorIsFatal ==
    feed_error =>
        /\ pc = "done"
        /\ result = "raised"
        /\ files = <<>>

\* the feed raised after enough records for a successful crawl were collected
C26_Witness ==
    /\ feed_error
    /\ call.fn = "crawl"
    /\ posts # <<>>
    /\ Len(posts) >= config.min_posts
    /\ result = "raised"
    /\ files = <<>>


\* ---------------------------------------------------------------------------
\* The command line: main and _login of cli.py. A run is the record cli:
\*   pc          where main is: "targets", "session_file", "default_session",
\*               "login", "save_session", "mkdir", "loop", "exit"
\*   args        the parsed arguments: target (None or a hashtag), targetfile
\*               (None, or the lines of the file), session_file (given or not)
\*   hashtags    the resolved targets
\*   login_error the exception that left _login, or None
\*   crawled     one entry per call of crawl: the hashtag and how the call ended
\*   written     the hashtags whose output file was written
\*   dir_made    output_dir was created
\*   io_error    reading, writing or the network failed outside _login
\*   status      the exit status of the process, or None while it runs
\* crawl is the operation of the specification Spec; here a call of it is one
\* step that ends in one of the ways a call ends there.

MaxTargets == 2

TargetLists == {<<>>, <<"a">>, <<"b">>} \cup
               (IF MaxTargets >= 2 THEN {<<"a", "b">>, <<"b", "a">>} ELSE {}) \cup
               (IF MaxTargets >= 3 THEN {<<"a", "b", "a">>} ELSE {})

\* -t, -f (given as the lines the file holds) and --session-file
CliArgs ==
    [target : {None, Some("a")},
     targetfile : {None} \cup {Some(l) : l \in TargetLists},
     session_file : BOOLEAN]

\* the exceptions of instaloader that loader.login and test_login raise
LoginExceptions ==
    {"InvalidArgumentException", "TwoFactorAuthRequiredException",
     "BadCredentialsException", "ConnectionException"}

\* how a call of crawl ends: it returns True after writing the file, returns
\* False without writing, or an exception leaves it before any write
CrawlOutcomes ==
    {"True", "False", "QueryReturnedNotFoundException", "KeyboardInterrupt",
     "ConnectionException", "OSError"}

\* LoginFailureStatus for a run that goes on without a session
LoginFailureStatus_Continues(exc) ==
    IF exc \in {"InvalidArgumentException", "TwoFactorAuthRequiredException"}
    THEN Some(1) ELSE None

\* the exit status after an exception of _login: sys.exit(1) for the two that
\* main catches, and 1 for the others, which leave main as uncaught exceptions
LoginFailureStatus(exc) == Some(1)

\* the exit status main sets when crawl returned False: none, the loop goes on
CrawlFalseStatus == None

InitCli ==
    /\ cli \in {[pc |-> "targets", args |-> a, hashtags |-> <<>>, login_error |-> None,
                  crawled |-> <<>>, written |-> <<>>, dir_made |-> FALSE,
                  io_error |-> FALSE, status |-> None] : a \in CliArgs}
    /\ call = [fn |-> "main", hashtags |-> <<>>]
    /\ config \in {c \in Configs : c.max_posts = MaxPostsBound /\ c.min_posts = 1
                                    /\ c.min_timestamp = None}
    /\ pc = "cli"
    /\ hidx = 0
    /\ feeds = <<>>
    /\ log = <<>>
    /\ posts = <<>>
    /\ seen_shortcodes = {}
    /\ skipped = 0
    /\ profile_cache = <<>>
    /\ attempt = 0
    /\ slept = <<>>
    /\ fetches = 0
    /\ fetched = <<>>
    /\ merged = <<>>
    /\ files = <<>>
    /\ result = "pending"
    /\ pair = None
    /\ legacy = None
    /\ feed_error = FALSE

\* main, lines 107-113: the targets are -t, else the lines of -f (reading the
\* file may fail), else the run ends with sys.exit(1)
CliTargets ==
    /\ cli.pc = "targets"
    /\ IF cli.args.target # None
       THEN cli' = [cli EXCEPT !.hashtags = <<cli.args.target[1]>>,
                               !.pc = IF cli.args.session_file THEN "session_file"
                                      ELSE "default_session"]
       ELSE IF cli.args.targetfile # None
       THEN \E io \in {"ok", "OSError"} :
              IF io = "ok"
              THEN cli' = [cli EXCEPT !.hashtags = cli.args.targetfile[1],
                                      !.pc = IF cli.args.session_file THEN "session_file"
                                             ELSE "default_session"]
              ELSE cli' = [cli EXCEPT !.pc = "exit", !.status = Some(1),
                                      !.io_error = TRUE]
       ELSE cli' = [cli EXCEPT !.pc = "exit", !.status = Some(1)]
    /\ UNCHANGED <<call, config, pc, hidx, feeds, log, posts, seen_shortcodes, feed_error, skipped,
                   profile_cache, attempt, slept, fetches, fetched, merged, files, result,
                   pair, legacy>>

\* how load_session_from_file and test_login end: the file is missing, or
\* test_login names the user, or names nobody, or raises
RestoreOutcomes == {"FileNotFoundError", "restored", "stale", "ConnectionException"}

\* the run after one attempt of _login to restore a session ended with r, where
\* next is what _login does when the session cannot be used
AfterRestore(next, r) ==
    CASE r = "restored" -> [cli EXCEPT !.pc = "mkdir"]
      [] r \in {"FileNotFoundError", "stale"} -> [cli EXCEPT !.pc = next]
      [] OTHER ->
           LET st == LoginFailureStatus(r) IN
           [cli EXCEPT !.login_error = Some(r),
                       !.status = st,
                       !.pc = IF st = None THEN "mkdir" ELSE "exit"]

\* _login, lines 73-80: the session of --session-file
CliSessionFile ==
    /\ cli.pc = "session_file"
    /\ \E r \in RestoreOutcomes : cli' = AfterRestore("default_session", r)
    /\ UNCHANGED <<call, config, pc, hidx, feeds, log, posts, seen_shortcodes, feed_error, skipped,
                   profile_cache, attempt, slept, fetches, fetched, merged, files, result,
                   pair, legacy>>

\* _login, lines 83-89: the session of the default file
CliDefaultSession ==
    /\ cli.pc = "default_session"
    /\ \E r \in RestoreOutcomes : cli' = AfterRestore("login", r)
    /\ UNCHANGED <<call, config, pc, hidx, feeds, log, posts, seen_shortcodes, feed_error, skipped,
                   profile_cache, attempt, slept, fetches, fetched, merged, files, result,
                   pair, legacy>>

\* _login, line 92: loader.login returns or raises
CliLogin ==
    /\ cli.pc = "login"
    /\ \E r \in {"ok"} \cup LoginExceptions :
         cli' = IF r = "ok" THEN [cli EXCEPT !.pc = "save_session"]
                ELSE LET st == LoginFailureStatus(r) IN
                     [cli EXCEPT !.login_error = Some(r),
                                 !.status = st,
                                 !.pc = IF st = None THEN "mkdir" ELSE "exit"]
    /\ UNCHANGED <<call, config, pc, hidx, feeds, log, posts, seen_shortcodes, feed_error, skipped,
                   profile_cache, attempt, slept, fetches, fetched, merged, files, result,
                   pair, legacy>>

\* _login, lines 95-98: the session is saved, which may fail
CliSaveSession ==
    /\ cli.pc = "save_session"
    /\ \E io \in {"ok", "OSError"} :
         cli' = IF io = "ok" THEN [cli EXCEPT !.pc = "mkdir"]
                ELSE [cli EXCEPT !.pc = "exit", !.status = Some(1), !.io_error = TRUE]
    /\ UNCHANGED <<call, config, pc, hidx, feeds, log, posts, seen_shortcodes, feed_error, skipped,
                   profile_cache, attempt, slept, fetches, fetched, merged, files, result,
                   pair, legacy>>

\* main, line 153: output_dir is created, which may fail
CliMkdir ==
    /\ cli.pc = "mkdir"
    /\ \E io \in {"ok", "OSError"} :
         cli' = IF io = "ok" THEN [cli EXCEPT !.pc = "loop", !.dir_made = TRUE]
                ELSE [cli EXCEPT !.pc = "exit", !.status = Some(1), !.io_error = TRUE]
    /\ UNCHANGED <<call, config, pc, hidx, feeds, log, posts, seen_shortcodes, feed_error, skipped,
                   profile_cache, attempt, slept, fetches, fetched, merged, files, result,
                   pair, legacy>>

\* main, lines 156-168: one iteration of the loop over the hashtags
CliCrawl ==
    /\ cli.pc = "loop"
    /\ Len(cli.crawled) < Len(cli.hashtags)
    /\ LET hashtag == cli.hashtags[Len(cli.crawled) + 1] IN
       \E o \in CrawlOutcomes :
         LET st == CASE o = "True" -> None
                     [] o = "False" -> CrawlFalseStatus
                     [] o = "QueryReturnedNotFoundException" -> None
                     [] o = "KeyboardInterrupt" -> Some(130)
                     [] OTHER -> Some(1)
         IN cli' = [cli EXCEPT !.crawled = Append(@, [hashtag |-> hashtag, outcome |-> o]),
                               !.written = IF o = "True" THEN Append(@, hashtag) ELSE @,
                               !.io_error = o \in {"ConnectionException", "OSError"},
                               !.status = st,
                               !.pc = IF st = None THEN "loop" ELSE "exit"]
    /\ UNCHANGED <<call, config, pc, hidx, feeds, log, posts, seen_shortcodes, feed_error, skipped,
                   profile_cache, attempt, slept, fetches, fetched, merged, files, result,
                   pair, legacy>>

\* main returns after the last hashtag: the process ends with status 0
CliReturn ==
    /\ cli.pc = "loop"
    /\ Len(cli.crawled) = Len(cli.hashtags)
    /\ cli' = [cli EXCEPT !.pc = "exit", !.status = Some(0)]
    /\ UNCHANGED <<call, config, pc, hidx, feeds, log, posts, seen_shortcodes, feed_error, skipped,
                   profile_cache, attempt, slept, fetches, fetched, merged, files, result,
                   pair, legacy>>

NextCli ==
    \/ CliTargets
    \/ CliSessionFile
    \/ CliDefaultSession
    \/ CliLogin
    \/ CliSaveSession
    \/ CliMkdir
    \/ CliCrawl
    \/ CliReturn

SpecCli == InitCli /\ [][NextCli]_vars


\* ---------------------------------------------------------------------------
\* C27: when authentication fails the run ends before any collection: no
\* hashtag is crawled (so no feed or profile is fetched, which only crawl does)
\* and no output file is written.
C27_LoginFailureAborts ==
    cli.login_error # None =>
        /\ cli.pc = "exit"
        /\ cli.status \notin {None, Some(0)}
        /\ cli.crawled = <<>>
        /\ cli.written = <<>>

\* wrong credentials, an exception main does not catch, with targets to crawl
C27_Witness ==
    /\ cli.login_error = Some("BadCredentialsException")
    /\ cli.hashtags # <<>>
    /\ cli.pc = "exit"
    /\ cli.crawled = <<>>

\* ---------------------------------------------------------------------------
\* C28: a run in which login failed, a crawl returned False or a fatal I/O
\* error occurred ends with a non-zero exit status.
InsufficientRecords ==
    \E i \in 1..Len(cli.crawled) : cli.crawled[i].outcome = "False"

C28_NonZeroExit ==
    (cli.pc = "exit" /\ (cli.login_error # None \/ InsufficientRecords \/ cli.io_error))
        => cli.status # Some(0)


\* ---------------------------------------------------------------------------
\* C29: every item the feed yields is decided by the checks capacity, time
\* cutoff, type, dedup, tag containment, taken in this order: what happens to
\* the item is what the first check it fails dictates, and it is enriched when
\* it fails none.

\* the five checks on a yielded post, in the claimed order: TRUE where it fails
FailedChecks(post) ==
    <<Len(posts) >= config.max_posts,
      config.min_timestamp # None /\ post.date_utc < config.min_timestamp[1],
      post.typename # "GraphImage",
      post.shortcode \in seen_shortcodes,
      RequiredOf(call) # None /\ ~(RequiredOf(call)[1] \subseteq post.caption_hashtags)>>

\* the place of the first failed check, 0 when the post passes all of them
FirstFailed(post) ==
    LET failed == {i \in 1..5 : FailedChecks(post)[i]}
    IN IF failed = {} THEN 0 ELSE CHOOSE i \in failed : \A j \in failed : i <= j

\* what the step does to the loop, by the place of the first failed check
DictatedBy(post, k) ==
    CASE k \in {1, 2} ->       \* stop pagination
           /\ pc' = "return"
           /\ UNCHANGED <<posts, skipped, seen_shortcodes>>
      [] k = 3 ->              \* count as skipped
           /\ pc' = "loop"
           /\ skipped' = skipped + 1
           /\ UNCHANGED <<posts, seen_shortcodes>>
      [] k = 4 ->              \* drop silently
           /\ pc' = "loop"
           /\ UNCHANGED <<posts, skipped, seen_shortcodes>>
      [] k = 5 ->              \* count as skipped
           /\ pc' = "loop"
           /\ skipped' = skipped + 1
           /\ posts' = posts
      [] OTHER ->              \* enrich: the record is appended or the profile fetched
           /\ skipped' = skipped
           /\ \/ pc' = "profile" /\ posts' = posts
              \/ /\ pc' = "loop"
                 /\ Len(posts') = Len(posts) + 1
                 /\ posts'[Len(posts')].shortcode = post.shortcode

C29_FirstFailedCheckDecides ==
    [][(pc = "loop" /\ feeds' # feeds) =>
          LET post == feeds'[hidx][Len(feeds'[hidx])]
          IN DictatedBy(post, FirstFailed(post))]_vars

\* a post that fails the capacity, the type and the tag check ended the loop
C29_Witness ==
    /\ pc = "return"
    /\ CurFeed # <<>>
    /\ Len(posts) >= config.max_posts
    /\ CurFeed[Len(CurFeed)].typename # "GraphImage"
    /\ RequiredOf(call) # None
    /\ ~(RequiredOf(call)[1] \subseteq CurFeed[Len(CurFeed)].caption_hashtags)
    /\ CurLog[Len(CurLog)] = "break_capacity"


\* ---------------------------------------------------------------------------
\* C30 (as claimed): an item whose shortcode the feed has yielded before in
\* the same call of _collect_posts never increments skipped, whatever its
\* media type or tags.
C30_RepeatNeverSkipped ==
    [][(pc = "loop" /\ feeds' # feeds) =>
          LET post == feeds'[hidx][Len(feeds'[hidx])]
          IN Occurrences(CurFeed, post.shortcode) # {} => skipped' = skipped]_vars

\* C30 (amended): a single-image item whose shortcode is in seen_shortcodes is
\* dropped silently, whatever its tags: skipped, posts and seen_shortcodes stay
\* as they are. (An item that is not a single image is counted as skipped each
\* time the feed yields it.)
C30_SeenImageDroppedSilently ==
    [][(pc = "loop" /\ feeds' # feeds) =>
          LET post == feeds'[hidx][Len(feeds'[hidx])]
          IN (post.shortcode \in seen_shortcodes /\ post.typename = "GraphImage")
                => UNCHANGED <<skipped, posts, seen_shortcodes>>]_vars

\* a single image that lacks a required tag came a second time and was dropped
\* without a second count
C30_Witness ==
    /\ pc = "loop"
    /\ Len(CurFeed) >= 2
    /\ CurLog[Len(CurLog)] = "duplicate"
    /\ CurLog[Len(CurLog) - 1] = "skip_tags"
    /\ CurFeed[Len(CurFeed)] = CurFeed[Len(CurFeed) - 1]
    /\ skipped = 1


\* ---------------------------------------------------------------------------
\* C31 (as claimed): when _collect_posts returns, the records kept, the items
\* counted in skipped and the duplicates dropped silently add up to the feed
\* items that passed the capacity and the time check, so that a post dropped
\* because its enrichment failed is counted too.
PassedCapacityAndTime ==
    {j \in 1..Len(CurFeed) : CurLog[j] \notin {"break_capacity", "break_time"}}

SilentDuplicates == {j \in 1..Len(CurFeed) : CurLog[j] = "duplicate"}

C31_DropsAreCounted ==
    (Collecting /\ pc = "return") =>
        Len(posts) + skipped + Cardinality(SilentDuplicates)
            = Cardinality(PassedCapacityAndTime)


\* ---------------------------------------------------------------------------
\* C32: on a finite feed, whatever the profile fetches do, a _collect_posts
\* call ends, and when it has ended exactly one reason holds: the loop broke at
\* capacity, it broke at the cutoff, the feed was exhausted, or a fetch raised.

\* a call of crawl, the caller of _collect_posts with one feed; min_posts is
\* read after _collect_posts has returned
InitFair == Init /\ call.fn = "crawl" /\ config.min_posts = 1

NextFair ==
    \/ Call
    \/ EnterCollect
    \/ FeedYields
    \/ FeedEnds
    \/ FeedRaises
    \/ ProfileAttempt
    \/ ReturnCrawl

\* the program is sequential: as long as a statement is left it is executed,
\* and a fetch or a sleep returns
SpecFair == InitFair /\ [][NextFair]_vars /\ WF_vars(NextFair)

InCollectPosts == pc \in {"loop", "profile"}

\* _collect_posts has returned or an exception has left it
CollectEnded ==
    /\ Collecting
    /\ \/ pc = "return"
       \/ pc = "done" /\ result = "raised" /\ files = <<>>
                      /\ (feed_error \/ (CurLog # <<>> /\ CurLog[Len(CurLog)] = "other"))

LastIs(what) == CurLog # <<>> /\ CurLog[Len(CurLog)] = what

ByCapacity == pc = "return" /\ LastIs("break_capacity") /\ Len(posts) >= config.max_posts
ByCutoff ==
    /\ pc = "return" /\ LastIs("break_time")
    /\ CutoffSet /\ CurFeed[Len(CurFeed)].date_utc < Cutoff
ByExhaustion ==
    pc = "return" /\ ~LastIs("break_capacity") /\ ~LastIs("break_time") /\ ~feed_error
ByFetchError == pc = "done" /\ result = "raised"

EndReasons == {r \in {"capacity", "cutoff", "exhausted", "error"} :
                 CASE r = "capacity" -> ByCapacity
                   [] r = "cutoff" -> ByCutoff
                   [] r = "exhausted" -> ByExhaustion
                   [] OTHER -> ByFetchError}

C32_TerminatesForOneReason ==
    /\ InCollectPosts ~> CollectEnded
    /\ [](CollectEnded => Cardinality(EndReasons) = 1)

\* a call that ended at capacity after a post was dropped on its third failed
\* fetch and another was kept
C32_Witness ==
    /\ CollectEnded
    /\ ByCapacity
    /\ \E j \in 1..Len(CurLog) : CurLog[j] = "dropped"
    /\ \E j \in 1..Len(CurLog) : CurLog[j] = "kept"


\* ---------------------------------------------------------------------------
\* C33: within one _collect_posts call a shortcode reaches the tag check and
\* the enrichment at most once: it is in seen_shortcodes before either, so
\* every later occurrence of it is dropped before them, also when the first
\* one was rejected by the tag check or its enrichment failed.

\* the positions of the running feed whose post got past the dedup check
ReachedTagCheck ==
    {j \in 1..Len(CurFeed) :
        CurLog[j] \in {"skip_tags", "fetching", "kept", "dropped", "other"}}

C33_TagCheckAndEnrichmentOnce ==
    Collecting =>
        /\ \A s \in Shortcodes :
             Cardinality(ReachedTagCheck \cap Occurrences(CurFeed, s)) <= 1
        /\ \A j \in ReachedTagCheck : CurFeed[j].shortcode \in seen_shortcodes

\* in an intersection search, a post whose enrichment failed came again with
\* every required tag and was dropped as a duplicate
C33_Witness ==
    /\ Collecting
    /\ RequiredOf(call) # None
    /\ \E i, j \in 1..Len(CurFeed) :
         /\ i < j
         /\ CurFeed[i].shortcode = CurFeed[j].shortcode
         /\ CurLog[i] = "dropped"
         /\ CurLog[j] = "duplicate"
         /\ RequiredOf(call)[1] \subseteq CurFeed[j].caption_hashtags


\* ---------------------------------------------------------------------------
\* C34: crawl_multi_and is all-or-nothing: when the collection of one hashtag
\* raises, the search raises, what was merged from earlier feeds is neither
\* returned nor written, and no later hashtag is queried.
CollectRaised == feed_error \/ (Collecting /\ LastIs("other"))

C34_MultiAllOrNothing ==
    (call.fn = "crawl_multi_and" /\ CollectRaised) =>
        /\ pc = "done"
        /\ result = "raised"
        /\ files = <<>>
        /\ Len(feeds) <= hidx

\* the second feed raised after records of the first feed had been merged
C34_Witness ==
    /\ call.fn = "crawl_multi_and"
    /\ feed_error
    /\ hidx = 2
    /\ Len(merged) >= config.min_posts
    /\ merged # <<>>
    /\ result = "raised"
    /\ files = <<>>


\* ---------------------------------------------------------------------------
\* C35 (as claimed): in get_posts the items of every page fetched with success
\* are in feed exactly once, and a rate-limited page fetch adds no item to feed
\* and leaves the cursor as it is.
RateLimitedStep ==
    /\ legacy.pc = "loop"
    /\ Len(legacy'.calls) = Len(legacy.calls) + 1
    /\ legacy'.calls[Len(legacy'.calls)].outcome = "wait"

FeedHoldsEachItemOnce ==
    \A i, j \in 1..Len(legacy.feed) : legacy.feed[i] = legacy.feed[j] => i = j

C35_PageItemsOnce ==
    /\ []FeedHoldsEachItemOnce
    /\ [][RateLimitedStep =>
            /\ legacy'.feed = legacy.feed
            /\ legacy'.next_max_id = legacy.next_max_id]_vars


\* ---------------------------------------------------------------------------
\* The legacy enrichment: beautify_post of src/crawler.py, called by
\* visit_profile on every post of the feed with one profile_dic. Here legacy is
\* the record
\*   pc          "next" between two calls, "fetch" inside the while loop
\*   feed        the posts get_posts returned: media_type and the user's pk
\*   out         what beautify_post returned for the posts so far: None, or
\*               the user_id and username of the record
\*   profile_dic the profiles stored so far, by user pk
\*   slept       the waits of the running call
\*   user_info   the api.user_info calls so far: the user and the outcome

\* posts in the feed handed to beautify_post
MaxLegacyPosts == 2

\* failed api.user_info calls for one post that the model follows
MaxLegacyAttempts == 4

\* beautify_post: sleep(5)
LegacyProfileWait == 5

\* media_type 1 is a single image, 8 an album
LegacyPosts == [media_type : {1, 8}, user : 1..NumOwners]

LegacyFeeds ==
    UNION {[1..n -> LegacyPosts] : n \in 1..MaxLegacyPosts}

\* the record beautify_post builds from a post and the profile of its user
LegacyRecord(post, profile) == [user_id |-> post.user, username |-> profile.username]

\* LegacyGivesUp after three failed fetches
LegacyGivesUp_AfterThree(failed) == failed >= 3

\* whether the while True loop of beautify_post is left after a number of
\* failed fetches: it has no bound and no break or raise in its except branch
LegacyGivesUp(failed) == FALSE

InitBeautify ==
    /\ legacy \in {[pc |-> "next", feed |-> f, out |-> <<>>, profile_dic |-> <<>>,
                     slept |-> <<>>, user_info |-> <<>>] : f \in LegacyFeeds}
    /\ call = [fn |-> "beautify_post", hashtags |-> <<"a">>]
    /\ config \in {c \in Configs : c.max_posts = MaxPostsBound /\ c.min_posts = 1
                                    /\ c.min_timestamp = None}
    /\ pc = "legacy"
    /\ hidx = 0
    /\ feeds = <<>>
    /\ log = <<>>
    /\ posts = <<>>
    /\ seen_shortcodes = {}
    /\ skipped = 0
    /\ profile_cache = <<>>
    /\ attempt = 0
    /\ slept = <<>>
    /\ fetches = 0
    /\ fetched = <<>>
    /\ merged = <<>>
    /\ files = <<>>
    /\ result = "pending"
    /\ pair = None
    /\ cli = None
    /\ feed_error = FALSE

\* the post of the running call of beautify_post
LegacyPost == legacy.feed[Len(legacy.out) + 1]

\* beautify_post up to its first api.user_info call: None for a post that is
\* not a single image; with the profile in profile_dic the loop is left at once
\* and the record is returned
BeautifyPost ==
    /\ legacy.pc = "next"
    /\ Len(legacy.out) < Len(legacy.feed)
    /\ LET post == LegacyPost IN
       legacy' =
         IF post.media_type # 1
         THEN [legacy EXCEPT !.out = Append(@, None)]
         ELSE IF post.user \in DOMAIN legacy.profile_dic
         THEN [legacy EXCEPT
                 !.out = Append(@, Some(LegacyRecord(post, legacy.profile_dic[post.user])))]
         ELSE [legacy EXCEPT !.pc = "fetch", !.slept = <<>>]
    /\ UNCHANGED <<call, config, pc, hidx, feeds, log, posts, seen_shortcodes, feed_error, skipped,
                   profile_cache, attempt, slept, fetches, fetched, merged, files, result,
                   pair, cli>>

\* one iteration of the while loop of beautify_post: api.user_info returns the
\* profile, which is stored and ends the loop, or raises, which is followed by
\* sleep(5) and the next iteration
BeautifyFetch ==
    /\ legacy.pc = "fetch"
    /\ LET post == LegacyPost IN
       \E outcome \in {"ok"} \cup (IF Len(legacy.slept) < MaxLegacyAttempts
                                    THEN {"Exception"} ELSE {}) :
         legacy' =
           IF outcome = "ok"
           THEN [legacy EXCEPT
                   !.user_info = Append(@, [user |-> post.user, outcome |-> "ok"]),
                   !.profile_dic = (post.user :> ProfileOf(post.user)) @@ @,
                   !.out = Append(@, Some(LegacyRecord(post, ProfileOf(post.user)))),
                   !.pc = "next"]
           ELSE IF LegacyGivesUp(Len(legacy.slept) + 1)
           THEN [legacy EXCEPT
                   !.user_info = Append(@, [user |-> post.user, outcome |-> "Exception"]),
                   !.out = Append(@, None),
                   !.pc = "next"]
           ELSE [legacy EXCEPT
                   !.user_info = Append(@, [user |-> post.user, outcome |-> "Exception"]),
                   !.slept = Append(@, LegacyProfileWait)]
    /\ UNCHANGED <<call, config, pc, hidx, feeds, log, posts, seen_shortcodes, feed_error, skipped,
                   profile_cache, attempt, slept, fetches, fetched, merged, files, result,
                   pair, cli>>

NextBeautify ==
    \/ BeautifyPost
    \/ BeautifyFetch

SpecBeautify == InitBeautify /\ [][NextBeautify]_vars

\* C36: in beautify_post a failed profile fetch is followed by a wait of 5 and
\* another fetch, without a bound on the attempts: a single-image post is never
\* answered with None, and a record is returned only for a user whose profile
\* was fetched with success or was in profile_dic already.
FetchedWithSuccess ==
    {legacy.user_info[i].user : i \in {j \in 1..Len(legacy.user_info) :
                                          legacy.user_info[j].outcome = "ok"}}

C36_RetriesUntilSuccess ==
    /\ \A i \in 1..Len(legacy.slept) : legacy.slept[i] = 5
    /\ \A i \in 1..Len(legacy.out) :
         /\ legacy.feed[i].media_type = 1 <=> legacy.out[i] # None
         /\ legacy.out[i] # None =>
              /\ legacy.feed[i].user \in FetchedWithSuccess
              /\ legacy.out[i][1].user_id = legacy.feed[i].user
    /\ legacy.pc = "fetch" =>
         \* every fetch of the running call has failed and was followed by a wait
         /\ Len(legacy.user_info) >= Len(legacy.slept)
         /\ \A k \in 1..Len(legacy.slept) :
              legacy.user_info[Len(legacy.user_info) - Len(legacy.slept) + k]
                  = [user |-> LegacyPost.user, outcome |-> "Exception"]

\* a single-image post got its record on the fifth fetch, after four failures
\* and four waits, and a later post of the same user got one without a fetch
C36_Witness ==
    /\ legacy.pc = "next"
    /\ Len(legacy.out) = 2
    /\ Len(legacy.slept) = 4
    /\ Len(legacy.user_info) = 5
    /\ legacy.out[1] # None
    /\ legacy.out[2] # None
    /\ legacy.feed[1].user = legacy.feed[2].user

====
